---- MODULE Spec2Model ----
(***************************************************************************)
(* TransactionValidator.validateTransaction of the UTXO model              *)
(* (src/src/transaction-validator.ts): a candidate transaction is checked  *)
(* against a UTXO pool and every violated rule is accumulated in an        *)
(* ordered error list.                                                     *)
(***************************************************************************)
EXTENDS Integers, Sequences, FiniteSets, TLC

(***************************************************************************)
(* Bounds of the explored input space.                                     *)
(***************************************************************************)
MaxInputs == 2
MaxOutputs == 2
MaxCalls == 2

(***************************************************************************)
(* The values transactions and pools are built from.                       *)
(***************************************************************************)
Keys == {"K", "M"}
Recipients == {"R"}
Amounts == {-10, 0, 10}
UtxoIds == [txId : {"A"}, outputIndex : {0, 1}]
TxIdOfCandidate == "T1"
TimestampOfCandidate == "t1"
StaleTimestamp == "t0"

\* Pool entries (types.ts UTXO: id, owner, amount) and the pools explored.
UtxoA0 == [utxoId |-> [txId |-> "A", outputIndex |-> 0], owner |-> "K", amount |-> 10]
UtxoA1 == [utxoId |-> [txId |-> "A", outputIndex |-> 1], owner |-> "M", amount |-> 10]
Pools == {{UtxoA0}, {UtxoA0, UtxoA1}}

Null == [absent |-> TRUE]

(***************************************************************************)
(* VALIDATION_ERRORS and createValidationError (errors.ts).  The message   *)
(* of an error is the record of the values its template interpolates.      *)
(***************************************************************************)
EMPTY_INPUTS == "EMPTY_INPUTS"
EMPTY_OUTPUTS == "EMPTY_OUTPUTS"
DOUBLE_SPENDING == "DOUBLE_SPENDING"
UTXO_NOT_FOUND == "UTXO_NOT_FOUND"
INVALID_SIGNATURE == "INVALID_SIGNATURE"
AMOUNT_MISMATCH == "AMOUNT_MISMATCH"
NEGATIVE_AMOUNT == "NEGATIVE_AMOUNT"

createValidationError(kind, message) == [kind |-> kind, message |-> message]

(***************************************************************************)
(* Collaborators: UTXOPoolManager.getUTXO and utils/crypto verify.         *)
(***************************************************************************)
getUTXO(p, txId, outputIndex) ==
  IF \E u \in p : u.utxoId.txId = txId /\ u.utxoId.outputIndex = outputIndex
  THEN CHOOSE u \in p : u.utxoId.txId = txId /\ u.utxoId.outputIndex = outputIndex
  ELSE Null

\* A signature is the pair (signing key, signed data); it verifies under
\* publicKey over data exactly when both match.
verify(data, signature, publicKey) ==
  signature.signer = publicKey /\ signature.data = data

(***************************************************************************)
(* createTransactionDataForSigning_: the serialization of the transaction  *)
(* without its signatures, fields in the order id, inputs (utxoId, owner), *)
(* outputs, timestamp.                                                     *)
(***************************************************************************)
createTransactionDataForSigning_(tx) ==
  << tx.id,
     [i \in 1..Len(tx.inputs) |-> << tx.inputs[i].utxoId, tx.inputs[i].owner >>],
     tx.outputs,
     tx.timestamp >>

(***************************************************************************)
(* validateTransaction, block by block.                                    *)
(***************************************************************************)

\* Variant of lines 22-34 that chains the two checks with else-if.
CheckEmptyElseIf(tx) ==
  IF Len(tx.inputs) = 0
  THEN << createValidationError(EMPTY_INPUTS, [text |-> "La transaccion no tiene entradas"]) >>
  ELSE IF Len(tx.outputs) = 0
       THEN << createValidationError(EMPTY_OUTPUTS, [text |-> "La transaccion no tiene salidas"]) >>
       ELSE << >>

\* Lines 22-34: the two structural checks, neither guarded by the other.
CheckEmpty(tx) ==
  (IF Len(tx.inputs) = 0
   THEN << createValidationError(EMPTY_INPUTS, [text |-> "La transaccion no tiene entradas"]) >>
   ELSE << >>)
  \o
  (IF Len(tx.outputs) = 0
   THEN << createValidationError(EMPTY_OUTPUTS, [text |-> "La transaccion no tiene salidas"]) >>
   ELSE << >>)

\* Variant of line 39 that leaves the output index out of the key.
utxoKeyTxIdOnly(input) == input.utxoId.txId

\* Line 39: the template string `${txId}:${outputIndex}`.
utxoKey(input) == input.utxoId.txId \o ":" \o ToString(input.utxoId.outputIndex)

\* Array.prototype.includes on the list of keys seen so far.
Includes(used, key) == \E j \in 1..Len(used) : used[j] = key

\* Lines 37-47: one pass over the inputs with the keys seen so far.
RECURSIVE DoubleSpendingLoop(_, _, _)
DoubleSpendingLoop(inputs, i, used) ==
  IF i > Len(inputs) THEN << >>
  ELSE LET input == inputs[i]
           key == utxoKey(input)
           found == IF Includes(used, key)
                    THEN << createValidationError(DOUBLE_SPENDING,
                              [txId |-> input.utxoId.txId,
                               outputIndex |-> input.utxoId.outputIndex]) >>
                    ELSE << >>
       IN found \o DoubleSpendingLoop(inputs, i + 1, Append(used, key))

CheckDoubleSpending(tx) == DoubleSpendingLoop(tx.inputs, 1, << >>)

\* Variant of lines 52-69 that verifies the signature outside the else branch.
ResolveInputAlwaysVerify(p, tx, i, acc) ==
  LET input == tx.inputs[i]
      utxo == getUTXO(p, input.utxoId.txId, input.utxoId.outputIndex)
      where == [txId |-> input.utxoId.txId, outputIndex |-> input.utxoId.outputIndex]
      isValid == verify(createTransactionDataForSigning_(tx), input.signature, input.owner)
      first == IF utxo = Null
               THEN Append(acc.errors, createValidationError(UTXO_NOT_FOUND, where))
               ELSE acc.errors
  IN [errors |-> IF ~isValid
                 THEN Append(first, createValidationError(INVALID_SIGNATURE, where))
                 ELSE first,
      totalInput |-> acc.totalInput + (IF utxo = Null THEN 0 ELSE utxo.amount),
      verifyCalls |-> Append(acc.verifyCalls, i)]

\* Variant of lines 52-69 that adds the amount of a UTXO only at its first
\* occurrence among the inputs.
ResolveInputCountOnce(p, tx, i, acc) ==
  LET input == tx.inputs[i]
      utxo == getUTXO(p, input.utxoId.txId, input.utxoId.outputIndex)
      where == [txId |-> input.utxoId.txId, outputIndex |-> input.utxoId.outputIndex]
      repeated == \E j \in 1..(i - 1) : tx.inputs[j].utxoId = input.utxoId
  IN IF utxo = Null
     THEN [acc EXCEPT !.errors = Append(@, createValidationError(UTXO_NOT_FOUND, where))]
     ELSE LET isValid == verify(createTransactionDataForSigning_(tx),
                                input.signature, input.owner)
          IN [errors |-> IF ~isValid
                         THEN Append(acc.errors, createValidationError(INVALID_SIGNATURE, where))
                         ELSE acc.errors,
              totalInput |-> acc.totalInput + (IF repeated THEN 0 ELSE utxo.amount),
              verifyCalls |-> Append(acc.verifyCalls, i)]

\* Lines 52-69: the body of the resolution loop for input i, applied to the
\* accumulated errors, totalInput and the list of inputs handed to verify.
ResolveInput(p, tx, i, acc) ==
  LET input == tx.inputs[i]
      utxo == getUTXO(p, input.utxoId.txId, input.utxoId.outputIndex)
      where == [txId |-> input.utxoId.txId, outputIndex |-> input.utxoId.outputIndex]
  IN IF utxo = Null
     THEN [acc EXCEPT !.errors = Append(@, createValidationError(UTXO_NOT_FOUND, where))]
     ELSE LET transactionData == createTransactionDataForSigning_(tx)
              isValid == verify(transactionData, input.signature, input.owner)
          IN [errors |-> IF ~isValid
                         THEN Append(acc.errors, createValidationError(INVALID_SIGNATURE, where))
                         ELSE acc.errors,
              totalInput |-> acc.totalInput + utxo.amount,
              verifyCalls |-> Append(acc.verifyCalls, i)]

\* Lines 49-70.
RECURSIVE ResolveLoop(_, _, _, _)
ResolveLoop(p, tx, i, acc) ==
  IF i > Len(tx.inputs) THEN acc
  ELSE ResolveLoop(p, tx, i + 1, ResolveInput(p, tx, i, acc))

ResolveInputs(p, tx) ==
  ResolveLoop(p, tx, 1, [errors |-> << >>, totalInput |-> 0, verifyCalls |-> << >>])

\* Lines 72-75.
RECURSIVE SumOutputsFrom(_, _)
SumOutputsFrom(outputs, i) ==
  IF i > Len(outputs) THEN 0 ELSE outputs[i].amount + SumOutputsFrom(outputs, i + 1)

SumOutputs(tx) == SumOutputsFrom(tx.outputs, 1)

\* Variant of lines 77-82 that reports only a shortfall of the inputs.
CheckBalanceShortfallOnly(sumIn, sumOut) ==
  IF sumIn < sumOut
  THEN << createValidationError(AMOUNT_MISMATCH,
            [totalInput |-> sumIn, totalOutput |-> sumOut]) >>
  ELSE << >>

\* Lines 77-82.
CheckBalance(sumIn, sumOut) ==
  IF sumIn # sumOut
  THEN << createValidationError(AMOUNT_MISMATCH,
            [totalInput |-> sumIn, totalOutput |-> sumOut]) >>
  ELSE << >>

\* Variant of line 88 that lets a zero amount through.
NonPositiveAmountStrict(output) == output.amount < 0

\* Line 88.
NonPositiveAmount(output) == output.amount <= 0

\* Lines 85-94 (the second `totalOutput +=` of line 86 is never read again).
RECURSIVE CheckOutputsFrom(_, _)
CheckOutputsFrom(outputs, i) ==
  IF i > Len(outputs) THEN << >>
  ELSE (IF NonPositiveAmount(outputs[i])
        THEN << createValidationError(NEGATIVE_AMOUNT,
                  [amount |-> outputs[i].amount, recipient |-> outputs[i].recipient]) >>
        ELSE << >>)
       \o CheckOutputsFrom(outputs, i + 1)

\* Variant of lines 85-94 whose loop starts at the second output.
CheckOutputsSkipFirst(tx) == CheckOutputsFrom(tx.outputs, 2)

CheckOutputs(tx) == CheckOutputsFrom(tx.outputs, 1)

\* Variant of lines 20-95 with the output loop ahead of the balance check.
CollectErrorsOutputsFirst(p, tx) ==
  LET resolved == ResolveInputs(p, tx)
  IN CheckEmpty(tx)
     \o CheckDoubleSpending(tx)
     \o resolved.errors
     \o CheckOutputs(tx)
     \o CheckBalance(resolved.totalInput, SumOutputs(tx))

\* Lines 20-95: the error list in the order the pushes happen.
CollectErrors(p, tx) ==
  LET resolved == ResolveInputs(p, tx)
  IN CheckEmpty(tx)
     \o CheckDoubleSpending(tx)
     \o resolved.errors
     \o CheckBalance(resolved.totalInput, SumOutputs(tx))
     \o CheckOutputs(tx)

\* Lines 19-100.
validateTransaction(p, tx) ==
  LET errors == CollectErrors(p, tx)
  IN [valid |-> Len(errors) = 0, errors |-> errors]

(***************************************************************************)
(* The transactions handed to the validator: every combination of inputs   *)
(* and outputs within the bounds, each input signed over the transaction's *)
(* signing data or over that of a stale copy (another timestamp).          *)
(***************************************************************************)
SeqsUpTo(S, n) == UNION {[1..k -> S] : k \in 0..n}

UnsignedTransactions ==
  [id : {TxIdOfCandidate},
   inputs : SeqsUpTo([utxoId : UtxoIds, owner : Keys], MaxInputs),
   outputs : SeqsUpTo([recipient : Recipients, amount : Amounts], MaxOutputs),
   timestamp : {TimestampOfCandidate}]

sign(u, key, stale) ==
  [signer |-> key,
   data |-> createTransactionDataForSigning_(
              IF stale THEN [u EXCEPT !.timestamp = StaleTimestamp] ELSE u)]

SignedBy(u, s) ==
  [u EXCEPT !.inputs = [i \in 1..Len(u.inputs) |->
     [utxoId |-> u.inputs[i].utxoId,
      owner |-> u.inputs[i].owner,
      signature |-> sign(u, s[i][1], s[i][2])]]]

\* Per input: the key that signs and whether it signs the stale copy; only
\* the claimed owner's signature is ever replayed from the stale copy.
SignatureChoices(u) ==
  {s \in [1..Len(u.inputs) -> Keys \X BOOLEAN] :
     \A i \in 1..Len(u.inputs) : s[i][2] => s[i][1] = u.inputs[i].owner}

(***************************************************************************)
(* State: the pool the validator was constructed with (pool0 keeps its     *)
(* contents at construction), the transaction under validation, the number *)
(* of calls made, and what the last call returned and computed: the two    *)
(* totals compared at line 77 and the inputs handed to verify.             *)
(***************************************************************************)
VARIABLES pool, pool0, transaction, calls, result, totalInput, totalOutput, verifyCalls

vars == << pool, pool0, transaction, calls, result, totalInput, totalOutput, verifyCalls >>

Init ==
  /\ pool \in Pools
  /\ pool0 = pool
  /\ \E u \in UnsignedTransactions :
       \E s \in SignatureChoices(u) : transaction = SignedBy(u, s)
  /\ calls = 0
  /\ result = [valid |-> FALSE, errors |-> << >>]
  /\ totalInput = 0
  /\ totalOutput = 0
  /\ verifyCalls = << >>

\* Variant of the call that removes the spent UTXOs from the pool once the
\* transaction is found valid.
ValidateTransactionSpending ==
  /\ calls < MaxCalls
  /\ calls' = calls + 1
  /\ result' = validateTransaction(pool, transaction)
  /\ totalInput' = ResolveInputs(pool, transaction).totalInput
  /\ totalOutput' = SumOutputs(transaction)
  /\ verifyCalls' = ResolveInputs(pool, transaction).verifyCalls
  /\ pool' = IF validateTransaction(pool, transaction).valid
             THEN {u \in pool : \A i \in 1..Len(transaction.inputs) :
                                  transaction.inputs[i].utxoId # u.utxoId}
             ELSE pool
  /\ UNCHANGED << pool0, transaction >>

\* One call of validateTransaction(transaction); the pool is only read.
ValidateTransaction ==
  /\ calls < MaxCalls
  /\ calls' = calls + 1
  /\ result' = validateTransaction(pool, transaction)
  /\ totalInput' = ResolveInputs(pool, transaction).totalInput
  /\ totalOutput' = SumOutputs(transaction)
  /\ verifyCalls' = ResolveInputs(pool, transaction).verifyCalls
  /\ UNCHANGED << pool, pool0, transaction >>

Next == ValidateTransaction

Spec == Init /\ [][Next]_vars

(***************************************************************************)
(* Vocabulary of the properties, stated on the transaction and the pool    *)
(* without the validator's own loops.                                      *)
(***************************************************************************)
Inputs == transaction.inputs
Outputs == transaction.outputs
Returned == calls > 0

InputExists(i) == \E u \in pool : u.utxoId = Inputs[i].utxoId
UtxoOfInput(i) == CHOOSE u \in pool : u.utxoId = Inputs[i].utxoId

\* The signature of input i is the one `key` produces over the unsigned
\* transaction data.
SignedUnder(i, key) == Inputs[i].signature = sign(transaction, key, FALSE)

ErrorsOfKind(kind) == SelectSeq(result.errors, LAMBDA e : e.kind = kind)
CountKind(kind) == Len(ErrorsOfKind(kind))
RefOf(i) == [txId |-> Inputs[i].utxoId.txId, outputIndex |-> Inputs[i].utxoId.outputIndex]

RECURSIVE SortedSeq(_)
SortedSeq(S) ==
  IF S = {} THEN << >>
  ELSE LET m == CHOOSE x \in S : \A y \in S : x <= y
       IN << m >> \o SortedSeq(S \ {m})

RECURSIVE SumOver(_, _)
SumOver(S, f) ==
  IF S = {} THEN 0
  ELSE LET x == CHOOSE y \in S : TRUE IN f[x] + SumOver(S \ {x}, f)

PresentInputs == {i \in 1..Len(Inputs) : InputExists(i)}
AbsentInputs == {i \in 1..Len(Inputs) : ~InputExists(i)}
RepeatedInputs == {i \in 1..Len(Inputs) : \E j \in 1..(i - 1) : Inputs[j].utxoId = Inputs[i].utxoId}
NonPositiveOutputs == {k \in 1..Len(Outputs) : Outputs[k].amount <= 0}

\* Sum over every input occurrence whose UTXO exists, and over all outputs.
OccurrenceTotal == SumOver(PresentInputs, [i \in PresentInputs |-> UtxoOfInput(i).amount])
OutputTotal == SumOver(1..Len(Outputs), [k \in 1..Len(Outputs) |-> Outputs[k].amount])
\* Sum over the distinct pool UTXOs the inputs reference.
ReferencedUtxos == {u \in pool : \E i \in 1..Len(Inputs) : Inputs[i].utxoId = u.utxoId}
ReferencedTotal == SumOver(ReferencedUtxos, [u \in ReferencedUtxos |-> u.amount])

(***************************************************************************)
(* C1                                                                      *)
(***************************************************************************)
Rule1 == Len(Inputs) >= 1 /\ Len(Outputs) >= 1
Rule2 == \A i, j \in 1..Len(Inputs) : i # j => Inputs[i].utxoId # Inputs[j].utxoId
Rule3 == \A i \in 1..Len(Inputs) : InputExists(i)
Rule4 == \A i \in 1..Len(Inputs) : SignedUnder(i, Inputs[i].owner)
Rule5 == ReferencedTotal = OutputTotal
Rule6 == \A k \in 1..Len(Outputs) : Outputs[k].amount > 0
AllSixRules == Rule1 /\ Rule2 /\ Rule3 /\ Rule4 /\ Rule5 /\ Rule6

\* C1: the returned valid flag is true exactly when the error list is empty,
\* and exactly when the transaction satisfies all six rules.
C1_ValidIffAllRules ==
  Returned => /\ result.valid <=> (Len(result.errors) = 0)
              /\ result.valid <=> AllSixRules

\* A transaction with two inputs and two outputs was accepted.
C1_Witness ==
  Returned /\ result.valid /\ Len(Inputs) = 2 /\ Len(Outputs) = 2

(***************************************************************************)
(* C2                                                                      *)
(***************************************************************************)
\* C2: every input whose UTXO exists and whose signature does not verify
\* under the owner key recorded in that UTXO gets an INVALID_SIGNATURE error.
C2_UtxoOwnerMustSign ==
  Returned =>
    \A i \in PresentInputs :
      ~SignedUnder(i, UtxoOfInput(i).owner) =>
        \E n \in 1..Len(result.errors) :
          result.errors[n] = createValidationError(INVALID_SIGNATURE, RefOf(i))

C4_MissingUtxo ==
  Returned =>
    LET absent == SortedSeq(AbsentInputs)
    IN /\ ErrorsOfKind(UTXO_NOT_FOUND) =
            [n \in 1..Len(absent) |-> createValidationError(UTXO_NOT_FOUND, RefOf(absent[n]))]
       /\ verifyCalls = SortedSeq(PresentInputs)
       /\ \A n \in 1..Len(result.errors) :
            result.errors[n].kind = INVALID_SIGNATURE =>
              \E u \in pool : /\ u.utxoId.txId = result.errors[n].message.txId
                              /\ u.utxoId.outputIndex = result.errors[n].message.outputIndex
       /\ totalInput = OccurrenceTotal

\* An absent input carrying a bad signature sits next to a present one.
C4_Witness ==
  /\ Returned
  /\ \E i \in AbsentInputs : ~SignedUnder(i, Inputs[i].owner)
  /\ PresentInputs # {}
  /\ CountKind(UTXO_NOT_FOUND) = 1

(***************************************************************************)
(* C5                                                                      *)
(***************************************************************************)
\* C5: there is one AMOUNT_MISMATCH error when the per-occurrence input total
\* differs from the output total and none otherwise, and it reports these
\* two totals.
C5_AmountMismatch ==
  Returned =>
    ErrorsOfKind(AMOUNT_MISMATCH) =
      IF OccurrenceTotal # OutputTotal
      THEN << createValidationError(AMOUNT_MISMATCH,
                [totalInput |-> OccurrenceTotal, totalOutput |-> OutputTotal]) >>
      ELSE << >>

\* The inputs, one UTXO used twice among them, exceed the outputs.
C5_Witness ==
  /\ Returned
  /\ OccurrenceTotal > OutputTotal
  /\ Len(Outputs) > 0
  /\ CountKind(AMOUNT_MISMATCH) = 1
  /\ RepeatedInputs \cap PresentInputs # {}

(***************************************************************************)
(* C6                                                                      *)
(***************************************************************************)
DuplicateScenario ==
  /\ pool = {UtxoA0}
  /\ Len(Inputs) = 2
  /\ \A i \in 1..2 : Inputs[i].utxoId = UtxoA0.utxoId
  /\ Len(Outputs) = 2
  /\ OutputTotal = 20

\* C6 as stated: in the scenario the result has one DOUBLE_SPENDING and an
\* AMOUNT_MISMATCH of output total 20 against input total 10.
C6_AsStated ==
  (Returned /\ DuplicateScenario) =>
    /\ CountKind(DOUBLE_SPENDING) = 1
    /\ \E n \in 1..Len(result.errors) :
         result.errors[n] = createValidationError(AMOUNT_MISMATCH,
                              [totalInput |-> 10, totalOutput |-> 20])

\* C6 amended: in the scenario the result has one DOUBLE_SPENDING and no
\* AMOUNT_MISMATCH, the input total being 20 (10 per occurrence) against the
\* output total 20.
C6_DuplicateCountsTwice ==
  (Returned /\ DuplicateScenario) =>
    /\ CountKind(DOUBLE_SPENDING) = 1
    /\ CountKind(AMOUNT_MISMATCH) = 0
    /\ totalInput = 20
    /\ totalOutput = 20

C6_Witness == Returned /\ DuplicateScenario /\ CountKind(DOUBLE_SPENDING) = 1

(***************************************************************************)
(* C7                                                                      *)
(***************************************************************************)
\* C7: the NEGATIVE_AMOUNT errors are, in output order, one for each output
\* whose amount is <= 0, carrying its amount and recipient, and none for an
\* output whose amount is > 0, whatever other errors there are.
C7_NegativeAmount ==
  Returned =>
    LET bad == SortedSeq(NonPositiveOutputs)
    IN ErrorsOfKind(NEGATIVE_AMOUNT) =
         [n \in 1..Len(bad) |->
            createValidationError(NEGATIVE_AMOUNT,
              [amount |-> Outputs[bad[n]].amount, recipient |-> Outputs[bad[n]].recipient])]

\* A zero and a negative output were both reported, with no inputs at all.
C7_Witness ==
  /\ Returned
  /\ Len(Inputs) = 0
  /\ \E k \in 1..Len(Outputs) : Outputs[k].amount = 0
  /\ \E k \in 1..Len(Outputs) : Outputs[k].amount < 0
  /\ CountKind(NEGATIVE_AMOUNT) = 2
  /\ CountKind(EMPTY_INPUTS) = 1

(***************************************************************************)
(* C8                                                                      *)
(***************************************************************************)
\* C8: EMPTY_INPUTS is reported (once) exactly when there are no inputs and
\* EMPTY_OUTPUTS (once) exactly when there are no outputs, both together when
\* both lists are empty; with an empty list the later checks still report.
C8_EmptyLists ==
  Returned =>
    /\ CountKind(EMPTY_INPUTS) = (IF Len(Inputs) = 0 THEN 1 ELSE 0)
    /\ CountKind(EMPTY_OUTPUTS) = (IF Len(Outputs) = 0 THEN 1 ELSE 0)
    /\ (Len(Inputs) = 0 \/ Len(Outputs) = 0) =>
         /\ CountKind(AMOUNT_MISMATCH) = (IF OccurrenceTotal # OutputTotal THEN 1 ELSE 0)
         /\ CountKind(NEGATIVE_AMOUNT) = Cardinality(NonPositiveOutputs)
         /\ CountKind(UTXO_NOT_FOUND) = Cardinality(AbsentInputs)

\* The transaction with no inputs and no outputs got both errors.
C8_Witness ==
  /\ Returned
  /\ Len(Inputs) = 0
  /\ Len(Outputs) = 0
  /\ CountKind(EMPTY_INPUTS) = 1
  /\ CountKind(EMPTY_OUTPUTS) = 1

Group(kind) ==
  CASE kind = EMPTY_INPUTS -> 1
    [] kind = EMPTY_OUTPUTS -> 2
    [] kind = DOUBLE_SPENDING -> 3
    [] kind \in {UTXO_NOT_FOUND, INVALID_SIGNATURE} -> 4
    [] kind = AMOUNT_MISMATCH -> 5
    [] kind = NEGATIVE_AMOUNT -> 6

\* The inputs that get a per-input error: UTXO absent, or present with a
\* signature that fails under the claimed owner.
FlaggedInputs ==
  AbsentInputs \cup {i \in PresentInputs : ~SignedUnder(i, Inputs[i].owner)}

\* C10: the error list is ordered EMPTY_INPUTS, EMPTY_OUTPUTS, the
\* DOUBLE_SPENDING errors, the per-input UTXO_NOT_FOUND / INVALID_SIGNATURE
\* errors in input order, AMOUNT_MISMATCH, the NEGATIVE_AMOUNT errors.
C10_ErrorOrder ==
  Returned =>
    LET flagged == SortedSeq(FlaggedInputs)
    IN /\ \A m, n \in 1..Len(result.errors) :
            m < n => Group(result.errors[m].kind) <= Group(result.errors[n].kind)
       /\ SelectSeq(result.errors, LAMBDA e : Group(e.kind) = 4) =
            [n \in 1..Len(flagged) |->
               createValidationError(
                 IF flagged[n] \in AbsentInputs THEN UTXO_NOT_FOUND ELSE INVALID_SIGNATURE,
                 RefOf(flagged[n]))]

\* One result holds a DOUBLE_SPENDING, an INVALID_SIGNATURE, an
\* AMOUNT_MISMATCH and a NEGATIVE_AMOUNT error.
C10_Witness ==
  /\ Returned
  /\ CountKind(DOUBLE_SPENDING) > 0
  /\ CountKind(INVALID_SIGNATURE) > 0
  /\ CountKind(AMOUNT_MISMATCH) > 0
  /\ CountKind(NEGATIVE_AMOUNT) > 0

====
